---- MODULE Spec2Model ----
(***************************************************************************)
(* Tar-based file transfer of the slicer SDK: StreamTarArchive (builder),  *)
(* ExtractTarStream (extractor), ValidRelPath and ExtractTarToPath         *)
(* (placement by rename), over a small POSIX-like filesystem.              *)
(*                                                                         *)
(* A string is a sequence of one-character strings; a path is a sequence   *)
(* of segments and is always rooted.  Discretionary access checks of the   *)
(* filesystem are not modelled (the process may read and write every       *)
(* object it names).                                                       *)
(***************************************************************************)
EXTENDS Integers, Sequences, FiniteSets, TLC

VARIABLES
    fs,            \* the filesystem: physical path -> object
    fs0,           \* the filesystem when the operation started (history)
    umask,         \* the process umask
    call,          \* which entry point runs: "ExtractTarToPath" / "ExtractTarStream"
    producer,      \* who writes the stream: "remote" (any bytes) or "builder"
    dest,          \* ExtractTarToPath: dest
    extractDir,    \* ExtractTarStream: extractDir
    topLevelName,  \* ExtractTarToPath: topLevelName ("" when extracting into a directory)
    destIsDir,     \* ExtractTarToPath: destIsDir
    pc,            \* position: "build", "begin", "extract", "place", "open", "parse", "do", "done"
    result,        \* the error returned ("nil" for success, "none" while running)
    madeDir,       \* ExtractTarStream: madeDir
    stream,        \* entries the builder has written and the extractor has not read
    walk,          \* StreamTarArchive: objects filepath.Walk has still to visit
    nread,         \* number of headers tr.Next() has returned
    last,          \* the header tr.Next() returned last (history)
    tops,          \* top-level names of extractDir the stream's entries materialized (history)
    placed,        \* what the placement step did (history)
    sideDirs,      \* directories MkdirAll(parentDir) created for a file entry (history)
    ctxDone,       \* ctx.Done() of the call that runs is closed
    bresult,       \* the error StreamTarArchive returned ("none" while it runs or when no builder runs)
    trailer,       \* the end-of-archive marker follows the entries of stream
    sinkOK,        \* writes to the io.Writer w of StreamTarArchive succeed
    owner,         \* ExtractTarStream: <<uid, gid>>
    chownOK,       \* the process is allowed to change ownership
    chowned,       \* targets os.Chown was called on (history)
    pipeErr,       \* copyToVMTar: the error the write end of the pipe was closed with ("open" before)
    precv,         \* copyToVMTar: entries of stream the reader of the pipe has read
    readerSaw,     \* copyToVMTar: the terminal error a Read of the pipe returned ("none" so far)
    closes,        \* copyToVMTar: the close calls the goroutine has still to make
    client,        \* the SlicerClient: baseURL, token, userAgent
    sent           \* the HTTP requests handed to httpClient.Do so far

vars == <<fs, fs0, umask, call, producer, dest, extractDir, topLevelName, destIsDir, pc,
          result, madeDir, stream, walk, nread, last, tops, placed, sideDirs, ctxDone,
          bresult, trailer, sinkOK, owner, chownOK, chowned, pipeErr, precv, readerSaw,
          closes,
          client,
          sent>>

----------------------------------------------------------------------------
(* Bounds *)

\* entries one stream may carry
MaxEntries == 2

\* calls of makeRequest on one client
MaxRequests == 2

----------------------------------------------------------------------------
(* Strings (strings.HasPrefix, strings.TrimSuffix, strings.Contains) *)

HasPrefix(s, pre) ==
    Len(pre) <= Len(s) /\ SubSeq(s, 1, Len(pre)) = pre

TrimSuffix(s, suf) ==
    IF Len(suf) <= Len(s) /\ SubSeq(s, Len(s) - Len(suf) + 1, Len(s)) = suf
    THEN SubSeq(s, 1, Len(s) - Len(suf))
    ELSE s

Contains(s, sub) ==
    \E i \in 1..(Len(s) - Len(sub) + 1) : SubSeq(s, i, i + Len(sub) - 1) = sub

\* the name of a segment spelled by the characters cs
SegName(cs) ==
    IF cs = <<>> THEN ""
    ELSE IF Len(cs) = 1 THEN cs[1]
    ELSE IF cs = <<".", ".">> THEN ".."
    ELSE "?"

RECURSIVE SplitFrom(_, _, _)
SplitFrom(s, i, cur) ==
    IF i > Len(s) THEN <<SegName(cur)>>
    ELSE IF s[i] = "/" THEN <<SegName(cur)>> \o SplitFrom(s, i + 1, <<>>)
    ELSE SplitFrom(s, i + 1, Append(cur, s[i]))

\* the segments of a slash-separated string
SplitSlash(s) == SplitFrom(s, 1, <<>>)

RECURSIVE CleanFrom(_, _)
CleanFrom(done, rest) ==
    IF rest = <<>> THEN done
    ELSE LET h == Head(rest) IN
         IF h = "" \/ h = "." THEN CleanFrom(done, Tail(rest))
         ELSE IF h = ".."
              THEN CleanFrom(IF done = <<>> THEN <<>> ELSE SubSeq(done, 1, Len(done) - 1),
                             Tail(rest))
              ELSE CleanFrom(Append(done, h), Tail(rest))

\* filepath.Clean of a rooted path
Clean(segs) == CleanFrom(<<>>, segs)

\* filepath.Join(dir, rel), rel a slash-separated string
Join(dir, rel) == Clean(dir \o SplitSlash(rel))

\* filepath.Dir and filepath.Base of a clean rooted path
Dir(p) == IF p = <<>> THEN <<>> ELSE SubSeq(p, 1, Len(p) - 1)

Base(p) == IF p = <<>> THEN "/" ELSE p[Len(p)]

\* p is q or lies below q
IsUnder(p, q) == Len(q) <= Len(p) /\ SubSeq(p, 1, Len(q)) = q

----------------------------------------------------------------------------
(* Permission modes *)

RECURSIVE BitAnd(_, _)
BitAnd(a, b) ==
    IF a = 0 \/ b = 0 THEN 0
    ELSE (a % 2) * (b % 2) + 2 * BitAnd(a \div 2, b \div 2)

BitOr(a, b) == a + b - BitAnd(a, b)

\* os.FileMode.Perm: the nine permission bits
Perm(m) == BitAnd(m, 511)

\* the three execute bits, 0111
ExecBits == 73

\* the mode MkdirAll gives the parents of a file, 0o755
DefaultDirMode == 493

\* the mode the kernel gives a created object
Masked(m, um) == m - BitAnd(m, um)

----------------------------------------------------------------------------
(* The filesystem: a function from the physical paths that exist to objects *)

\* an object the kernel creates or writes now; mtime is one of "old" (before the
\* operation started), "now", or a time a header declares
\* the process's own user and group, the owner of what it creates
ProcessIds == <<1, 1>>

DirObj(m) ==
    [kind |-> "dir", mode |-> m, data |-> <<>>, to |-> <<>>, mtime |-> "now",
     owner |-> ProcessIds]

FileObj(m, d) ==
    [kind |-> "file", mode |-> m, data |-> d, to |-> <<>>, mtime |-> "now",
     owner |-> ProcessIds]

LinkObj(t) ==
    [kind |-> "link", mode |-> 511, data |-> <<>>, to |-> t, mtime |-> "now",
     owner |-> ProcessIds]

\* the kernel stamps directory p when a name in it is created, removed or renamed
Touch(f, p) == IF p \in DOMAIN f THEN [f EXCEPT ![p].mtime = "now"] ELSE f

Put(f, p, o) == [q \in DOMAIN f \cup {p} |-> IF q = p THEN o ELSE f[q]]

Del(f, S) == [q \in DOMAIN f \ S |-> f[q]]

Children(f, p) == {q \in DOMAIN f : Len(q) = Len(p) + 1 /\ IsUnder(q, p)}

RECURSIVE ResolveFrom(_, _, _)
ResolveFrom(f, cur, rest) ==
    IF rest = <<>> THEN cur
    ELSE LET nxt == Append(cur, Head(rest)) IN
         IF nxt \in DOMAIN f /\ f[nxt].kind = "link"
         THEN ResolveFrom(f, f[nxt].to, Tail(rest))
         ELSE ResolveFrom(f, nxt, Tail(rest))

\* the object a path names, symbolic links followed in every component (stat)
Resolve(f, p) == ResolveFrom(f, <<>>, p)

\* the same, the last component not followed (lstat, unlink, rename)
LResolve(f, p) == IF p = <<>> THEN <<>> ELSE Append(Resolve(f, Dir(p)), Base(p))

\* os.Stat(p) succeeds / succeeds and IsDir()
StatExists(f, p) == Resolve(f, p) \in DOMAIN f

StatIsDir(f, p) == StatExists(f, p) /\ f[Resolve(f, p)].kind = "dir"

\* os.Mkdir(p, perm)
Mkdir(f, p, perm, um) ==
    LET q == LResolve(f, p) IN
    IF q \notin DOMAIN f /\ Dir(q) \in DOMAIN f /\ f[Dir(q)].kind = "dir"
    THEN [fs |-> Touch(Put(f, q, DirObj(Masked(Perm(perm), um))), Dir(q)), ok |-> TRUE]
    ELSE [fs |-> f, ok |-> q \in DOMAIN f /\ f[q].kind = "dir"]

\* os.MkdirAll(p, perm)
RECURSIVE MkdirAll(_, _, _, _)
MkdirAll(f, p, perm, um) ==
    IF StatExists(f, p) THEN [fs |-> f, ok |-> StatIsDir(f, p)]
    ELSE LET r == MkdirAll(f, Dir(p), perm, um) IN
         IF ~r.ok THEN r ELSE Mkdir(r.fs, p, perm, um)

RemoveAll(f, p) ==
    LET q == LResolve(f, p) IN
    IF q = <<>> \/ q \notin DOMAIN f THEN f
    ELSE Touch(Del(f, {r \in DOMAIN f : IsUnder(r, q)}), Dir(q))

\* os.Remove(p): unlink, else rmdir of an empty directory; the error is dropped by every caller
Remove(f, p) ==
    LET q == LResolve(f, p) IN
    IF q = <<>> \/ q \notin DOMAIN f THEN f
    ELSE IF f[q].kind = "dir" /\ Children(f, q) # {} THEN f
    ELSE Touch(Del(f, {q}), Dir(q))

\* os.OpenFile(p, O_CREATE|O_RDWR|O_TRUNC, perm)
OpenFile(f, p, perm, um) ==
    LET q == Resolve(f, p) IN
    IF q \in DOMAIN f
    THEN IF f[q].kind = "file"
         THEN [fs |-> Put(f, q, FileObj(f[q].mode, <<>>)), ok |-> TRUE]
         ELSE [fs |-> f, ok |-> FALSE]
    ELSE IF Dir(q) \in DOMAIN f /\ f[Dir(q)].kind = "dir"
         THEN [fs |-> Touch(Put(f, q, FileObj(Masked(Perm(perm), um), <<>>)), Dir(q)),
               ok |-> TRUE]
         ELSE [fs |-> f, ok |-> FALSE]

\* the bytes written through the open file
WriteData(f, p, d) ==
    LET q == Resolve(f, p) IN Put(f, q, FileObj(f[q].mode, d))

\* os.Chmod(p, perm); the error is dropped by the caller
Chmod(f, p, perm) ==
    LET q == Resolve(f, p) IN
    IF q \in DOMAIN f THEN Put(f, q, [f[q] EXCEPT !.mode = Perm(perm)]) ELSE f

\* os.Chown(p, uid, gid), allowed or not; the error is dropped by the caller
Chown(f, p, ids, ok) ==
    LET q == Resolve(f, p) IN
    IF ok /\ q \in DOMAIN f THEN Put(f, q, [f[q] EXCEPT !.owner = ids]) ELSE f

\* os.Chtimes(p, t, t); the error is dropped by the caller
Chtimes(f, p, t) ==
    LET q == Resolve(f, p) IN
    IF q \in DOMAIN f THEN Put(f, q, [f[q] EXCEPT !.mtime = t]) ELSE f

\* os.Rename(old, new)
Rename(f, old, new) ==
    LET ro == LResolve(f, old)
        rn == LResolve(f, new)
        moved == {q \in DOMAIN f : IsUnder(q, ro)}
        Moved(q) == rn \o SubSeq(q, Len(ro) + 1, Len(q))
    IN  IF ro \notin DOMAIN f \/ ro = <<>> \/ rn = <<>> THEN [fs |-> f, ok |-> FALSE]
        ELSE IF ro = rn THEN [fs |-> f, ok |-> TRUE]
        ELSE IF IsUnder(rn, ro) THEN [fs |-> f, ok |-> FALSE]
        ELSE IF ~(Dir(rn) \in DOMAIN f /\ f[Dir(rn)].kind = "dir") THEN [fs |-> f, ok |-> FALSE]
        ELSE IF rn \in DOMAIN f
                /\ (IF f[ro].kind = "dir"
                    THEN ~(f[rn].kind = "dir" /\ Children(f, rn) = {})
                    ELSE f[rn].kind = "dir")
             THEN [fs |-> f, ok |-> FALSE]
        ELSE [fs |-> Touch(Touch(
                        [q \in ((DOMAIN f \ moved) \cup {Moved(m) : m \in moved}) |->
                            IF IsUnder(q, rn) THEN f[ro \o SubSeq(q, Len(rn) + 1, Len(q))]
                            ELSE f[q]],
                        Dir(ro)), Dir(rn)),
              ok |-> TRUE]

\* os.ReadDir(p): the names in directory p
ReadDir(f, p) == {Base(q) : q \in Children(f, Resolve(f, p))}

----------------------------------------------------------------------------
(* ValidRelPath and ExtractTarStream *)

\* ValidRelPath(p)
ValidRelPath(p) ==
    ~(p = <<>> \/ HasPrefix(p, <<"/">>) \/ Contains(p, <<".", ".", "/">>))

\* the containment test on absTarget
Contained(absTarget, dir) == IsUnder(absTarget, dir)

NormModeAlwaysExec(m) == BitOr(Perm(m), ExecBits)

\* the mode of an entry: Perm(), and all execute bits when any is declared
NormMode(m) ==
    IF BitAnd(m, ExecBits) # 0 THEN BitOr(Perm(m), ExecBits) ELSE Perm(m)

WriteErrorIgnored(h) == "nil"

\* io.Copy(f, tr) and the size test after it: the error of writing entry h.
\* The tar reader yields the bytes the stream holds for the entry, at most
\* h.size, and io.ErrUnexpectedEOF when the stream ends before h.size bytes.
WriteError(h) ==
    IF Len(h.data) < h.size THEN "ErrWrite"
    ELSE IF h.size > 0 /\ Len(h.data) # h.size THEN "ErrShort"
    ELSE "nil"

\* "if !header.ModTime.IsZero() { os.Chtimes(target, ...) }"
PreserveMtime(f, target, h) ==
    IF h.mtime # "zero" THEN Chtimes(f, target, h.mtime) ELSE f

\* what one loop iteration leaves: the filesystem, madeDir, the error returned
\* ("nil" to go on), whether the entry was materialized, where os.Chown was called
Outcome(f, made, err, mat) ==
    [fs |-> f, made |-> made, err |-> err, mat |-> mat, chown |-> {}]

ChownRequestedUidOnly(ids) == ids[1] > 0

\* "if uid > 0 || gid > 0"
ChownRequested(ids) == ids[1] > 0 \/ ids[2] > 0

\* "if uid > 0 || gid > 0 { os.Chown(target, int(uid), int(gid)) }", then the mtime
Finish(f, made, target, h, ids, ok) ==
    IF ChownRequested(ids)
    THEN [Outcome(PreserveMtime(Chown(f, target, ids, ok), target, h), made, "nil", TRUE)
            EXCEPT !.chown = {target}]
    ELSE Outcome(PreserveMtime(f, target, h), made, "nil", TRUE)

\* case tar.TypeDir
ExtractDir(f, made, target, mode, h, um, ids, ok) ==
    LET r == MkdirAll(f, target, mode, um) IN
    IF ~r.ok THEN Outcome(r.fs, made, "ErrMkdir", FALSE)
    ELSE Finish(r.fs, made \cup {target}, target, h, ids, ok)

\* case tar.TypeReg, tar.TypeRegA
ExtractReg(f, made, target, mode, h, um, ids, ok) ==
    LET parentDir == Dir(target)
        r1 == IF parentDir \in made THEN [fs |-> f, ok |-> TRUE]
              ELSE MkdirAll(f, parentDir, DefaultDirMode, um)
        made1 == made \cup {parentDir}
        f2 == Remove(r1.fs, target)
        o == OpenFile(f2, target, mode, um)
        f3 == WriteData(o.fs, target, h.data)
    IN  IF ~r1.ok THEN Outcome(r1.fs, made, "ErrMkdirParent", FALSE)
        ELSE IF ~o.ok THEN Outcome(f2, made1, "ErrCreate", FALSE)
        ELSE IF WriteError(h) # "nil" THEN Outcome(f3, made1, WriteError(h), FALSE)
        ELSE Finish(Chmod(f3, target, mode), made1, target, h, ids, ok)

SkippedAsError(f, made) == Outcome(f, made, "ErrCreate", FALSE)

\* "default: continue": an entry that is neither a directory nor a regular file
Skipped(f, made) == Outcome(f, made, "nil", FALSE)

\* one iteration of the loop of ExtractTarStream on header h
ExtractOne(f, made, h, dir, um, ids, ok) ==
    LET name == TrimSuffix(h.name, <<"/">>)
        target == Join(dir, name)
        mode == NormMode(h.mode)
    IN  IF ~ValidRelPath(name) THEN Outcome(f, made, "ErrInvalidName", FALSE)
        ELSE IF ~Contained(target, dir) THEN Outcome(f, made, "ErrOutside", FALSE)
        ELSE IF h.typeflag = "dir" THEN ExtractDir(f, made, target, mode, h, um, ids, ok)
        ELSE IF h.typeflag = "reg" THEN ExtractReg(f, made, target, mode, h, um, ids, ok)
        ELSE Skipped(f, made)

\* the top-level name of dir under which target lies ({} for dir itself)
TopOf(target, dir) ==
    IF Len(target) > Len(dir) THEN {target[Len(dir) + 1]} ELSE {}

----------------------------------------------------------------------------
(* StreamTarArchive *)

\* the order in which filepath.Walk reads the names of a directory
Alphabet == <<"a", "b", "c", "d", "k", "l", "o", "s", "w">>

SortedNames(f, p) == SelectSeq(Alphabet, LAMBDA n : Append(p, n) \in DOMAIN f)

RECURSIVE WalkFrom(_, _)
RECURSIVE WalkChildren(_, _, _)
WalkFrom(f, p) ==
    <<p>> \o (IF f[p].kind = "dir" THEN WalkChildren(f, p, SortedNames(f, p)) ELSE <<>>)

WalkChildren(f, p, ns) ==
    IF ns = <<>> THEN <<>>
    ELSE WalkFrom(f, Append(p, Head(ns))) \o WalkChildren(f, p, Tail(ns))

RelToParent(base, path) == SubSeq(path, Len(Dir(base)) + 1, Len(path))

\* filepath.Rel(base, path) for a path at or below base: the segments after base
Rel(base, path) == SubSeq(path, Len(base) + 1, Len(path))

RECURSIVE ToSlash(_)
\* filepath.ToSlash of a relative path: its segments joined by "/", "." when there is none
ToSlash(segs) ==
    IF segs = <<>> THEN <<".">>
    ELSE IF Len(segs) = 1 THEN <<segs[1]>>
    ELSE <<segs[1], "/">> \o ToSlash(Tail(segs))

\* the mode StreamTarArchive writes for an object
BuildMode(info) ==
    IF info.kind = "file" /\ BitAnd(info.mode, ExecBits) # 0
    THEN BitOr(Perm(info.mode), ExecBits)
    ELSE Perm(info.mode)

\* the header and content StreamTarArchive writes for the object at path
BuildHeader(f, sourcePath, path) ==
    LET info == f[path]
        relPath == ToSlash(Rel(sourcePath, path))
    IN  [name |-> IF info.kind = "dir" THEN relPath \o <<"/">> ELSE relPath,
         typeflag |-> IF info.kind = "dir" THEN "dir" ELSE "reg",
         mode |-> BuildMode(info),
         size |-> Len(info.data),
         data |-> info.data,
         mtime |-> info.mtime]

\* the bytes io.Copy finds in a file whose lstat said data: the file may have
\* been truncated or appended to in between
ReadOutcomes(data) ==
    {data, Append(data, "z")}
    \cup (IF data = <<>> THEN {} ELSE {SubSeq(data, 1, Len(data) - 1)})

\* the bytes tw.Write accepts for an entry of the declared size
Written(got, size) == IF Len(got) > size THEN SubSeq(got, 1, size) ELSE got

\* the tar writer still expects bytes of the entry written last
Pending(st) == st # <<>> /\ Len(st[Len(st)].data) < st[Len(st)].size

\* tw.WriteHeader fails: the previous entry is short, or w fails
WriteHeaderFails(st, ok) == ~ok \/ Pending(st)

\* tw.Close() writes the end-of-archive marker: not after a short entry, nor when w fails
CloseWritesTrailer(st, ok) == ok /\ ~Pending(st)

----------------------------------------------------------------------------
(* Inputs *)

\* the working directory, a directory outside it, and the builder's source
W == <<"w">>

Outside == <<"o">>

Source == <<"s">>

NoHeader ==
    [name |-> <<>>, typeflag |-> "none", mode |-> 0, size |-> 0, data |-> <<>>, mtime |-> "zero"]

\* a header of a remote peer; it declares the modification time "t1"
Header(n, t, m, sz, d) ==
    [name |-> n, typeflag |-> t, mode |-> m, size |-> sz, data |-> d, mtime |-> "t1"]

\* the objects that exist before the operation starts are old
Aged(f) == [p \in DOMAIN f |-> [f[p] EXCEPT !.mtime = "old"]]

\* entry names a remote peer may send
SafeNames == {<<"a">>, <<"b">>, <<"a", "/", "b">>, <<"l", "/", "k">>}

OddNames ==
    {<<>>, <<"/", "a">>, <<".", ".", "/", "a">>, <<".", ".">>, <<"a", "/", ".", ".">>, <<".">>}

RemoteNames == SafeNames \cup OddNames

\* declared modes: 0600, 0700, 04777
DeclModes == {384, 448, 2559}

Full == <<"x", "y">>

\* headers a remote peer may send: every name as a plain file, some as a
\* directory; every mode, payload and kind on the name "a"
RemoteHeaders ==
    {Header(n, "reg", 384, 2, Full) : n \in RemoteNames}
    \cup {Header(n, "dir", 448, 0, <<>>) :
            n \in {<<"a", "/">>, <<"a", "/", ".", ".">>, <<".", ".">>}}
    \cup {Header(<<"a">>, "dir", m, 0, <<>>) : m \in DeclModes}
    \cup {Header(<<"a">>, "reg", m, 2, Full) : m \in DeclModes}
    \cup {Header(<<"a">>, "reg", 384, 0, <<>>)}
    \cup {Header(<<"a">>, "reg", 384, 2, d) : d \in {<<>>, <<"x">>}}
    \cup {Header(<<"a">>, "sym", 511, 0, <<>>)}
    \cup {[Header(<<"a", "/">>, "dir", 493, 0, <<>>) EXCEPT !.mtime = "zero"]}

BaseFS ==
    (<<>> :> DirObj(493)) @@ (W :> DirObj(493)) @@ (Outside :> DirObj(493))
    @@ (<<"o", "k">> :> FileObj(420, <<"o">>))

\* what the working directory may hold beforehand
PreB == {<<>>, <<"w", "b">> :> FileObj(420, <<"o">>), <<"w", "b">> :> DirObj(493)}

PreL == {<<>>, <<"w", "l">> :> LinkObj(Outside)}

RemoteFS == {Aged(b @@ l @@ BaseFS) : b \in PreB, l \in PreL}

Dests == {W, <<"w", "a">>, <<"w", "b">>, <<"n", "b">>}

\* source trees of the builder: a directory /s, or a single file /s
SrcA == {<<>>} \cup {<<"s", "a">> :> FileObj(m, Full) : m \in {384, 448, 493, 2541}}

SrcD ==
    {<<>>}
    \cup {(<<"s", "d">> :> DirObj(m)) @@ b :
            m \in {493, 511},
            b \in {<<>>, <<"s", "d", "b">> :> FileObj(420, <<"x">>)}}

SrcL == {<<>>, <<"s", "l">> :> LinkObj(Outside)}

BuilderFS ==
    {Aged(a @@ d @@ l @@ (Source :> DirObj(493)) @@ BaseFS) : a \in SrcA, d \in SrcD, l \in SrcL}
    \cup {Aged((Source :> FileObj(420, Full)) @@ BaseFS)}

Umasks == {0, 18}

\* the ownership asked for, and whether the process may change ownership
OwnershipCases ==
    {[ids |-> <<0, 0>>, ok |-> TRUE], [ids |-> <<7, 0>>, ok |-> FALSE],
     [ids |-> <<0, 7>>, ok |-> TRUE]}

\* the clients NewSlicerClient may build
NoClient == [baseURL |-> "", token |-> <<>>, userAgent |-> <<>>]

BaseURLs == {"http://h", "http://h/api", "%zz"}

Tokens == {<<>>, <<"t">>, <<"t", "k">>}

UserAgents == {<<>>, <<"u">>}

Clients == {[baseURL |-> b, token |-> t, userAgent |-> u] :
               b \in BaseURLs, t \in Tokens, u \in UserAgents}

\* the clients copyToVMTar is called on: a base URL that parses, one that does not
PipeClients == {c \in Clients : c.token = <<"t">> /\ c.userAgent = <<"u">>
                                /\ c.baseURL \in {"http://h", "%zz"}}

\* url.Parse(baseURL) succeeds
UrlParses(b) == b # "%zz"

\* the body argument of makeRequest: none, a value json.Marshal encodes, one it rejects
Bodies == {"nil", "struct", "chan"}

\* json.Marshal(body): the encoding, "error" when the value cannot be encoded
Marshal(body) == IF body = "struct" THEN "{}" ELSE "error"

Bearer == <<"B", "e", "a", "r", "e", "r", " ">>

EmptyHeader == [n \in {} |-> <<>>]

\* req.Header.Set(name, value)
HeaderSet(h, name, value) == [n \in DOMAIN h \cup {name} |-> IF n = name THEN value ELSE h[n]]

RequestHeaderAlwaysJSON(c, body) ==
    LET h1 == IF c.userAgent # <<>> THEN HeaderSet(EmptyHeader, "User-Agent", c.userAgent)
              ELSE EmptyHeader
        h2 == HeaderSet(h1, "Content-Type", "application/json")
    IN  IF c.token # <<>> THEN HeaderSet(h2, "Authorization", Bearer \o c.token) ELSE h2

\* the header makeRequest gives the request
RequestHeader(c, body) ==
    LET h1 == IF c.userAgent # <<>> THEN HeaderSet(EmptyHeader, "User-Agent", c.userAgent)
              ELSE EmptyHeader
        h2 == IF body # "nil" THEN HeaderSet(h1, "Content-Type", "application/json") ELSE h1
    IN  IF c.token # <<>> THEN HeaderSet(h2, "Authorization", Bearer \o c.token) ELSE h2

\* the header copyFromVMBinary gives its request
BinaryHeader(c) ==
    LET h1 == IF c.userAgent # <<>> THEN HeaderSet(EmptyHeader, "User-Agent", c.userAgent)
              ELSE EmptyHeader
        h2 == IF c.token # <<>> THEN HeaderSet(h1, "Authorization", Bearer \o c.token) ELSE h1
    IN  HeaderSet(h2, "Accept", "application/octet-stream")

\* the permissions argument of copyFromVMBinary: none, 0755, and two that are not octal
Permissions == {<<>>, <<"7", "5", "5">>, <<"8">>, <<"r", "w">>}

OctalDigits == {"0", "1", "2", "3", "4", "5", "6", "7"}

OctalValue(ch) == CHOOSE n \in 0..7 : ch = <<"0", "1", "2", "3", "4", "5", "6", "7">>[n + 1]

\* strconv.ParseUint(s, 8, 32): the value, -1 for an error
RECURSIVE ParseOctalFrom(_, _)
ParseOctalFrom(s, acc) ==
    IF s = <<>> THEN acc
    ELSE IF Head(s) \notin OctalDigits THEN -1
    ELSE IF acc >= 2^29 THEN -1   \* the value would not fit 32 bits
    ELSE ParseOctalFrom(Tail(s), acc * 8 + OctalValue(Head(s)))

ParseUint(s) == IF s = <<>> THEN -1 ELSE ParseOctalFrom(s, 0)

\* copyFromVMBinary: fileMode, 0600 unless permissions are given; -1 when they do not parse
FileMode(permissions) == IF Len(permissions) > 0 THEN ParseUint(permissions) ELSE 384

\* what httpClient.Do gives copyFromVMBinary: an error, or a response with a
\* status and a body (absent, or bytes of which a Read may fail after the first)
Responses ==
    {[do |-> "error", status |-> 0, hasBody |-> FALSE, body |-> <<>>, readOK |-> TRUE]}
    \cup {[do |-> "ok", status |-> st, hasBody |-> FALSE, body |-> <<>>, readOK |-> TRUE] :
            st \in {200, 404}}
    \cup {[do |-> "ok", status |-> st, hasBody |-> TRUE, body |-> b, readOK |-> r] :
            st \in {200, 404}, b \in {<<>>, Full}, r \in BOOLEAN}

\* the header copyToVMTar gives its request
CopyHeader(c) ==
    LET h1 == HeaderSet(EmptyHeader, "Content-Type", "application/x-tar")
        h2 == IF c.userAgent # <<>> THEN HeaderSet(h1, "User-Agent", c.userAgent) ELSE h1
    IN  IF c.token # <<>> THEN HeaderSet(h2, "Authorization", Bearer \o c.token) ELSE h2

----------------------------------------------------------------------------
(* State machine *)

InitRemote ==
    /\ producer = "remote"
    /\ call = "ExtractTarToPath"
    /\ fs \in RemoteFS
    /\ dest \in Dests
    /\ pc = "begin"
    /\ extractDir = <<>>
    /\ walk = <<>>
    /\ umask = 18
    /\ \E c \in OwnershipCases : owner = c.ids /\ chownOK = c.ok

InitBuilder ==
    /\ producer = "builder"
    /\ call = "ExtractTarStream"
    /\ fs \in BuilderFS
    /\ dest = <<>>
    /\ pc = "build"
    /\ extractDir = W
    /\ walk = WalkFrom(fs, Source)
    /\ umask \in Umasks
    /\ owner = <<0, 0>>
    /\ chownOK = TRUE

\* copyToVMTar: the goroutine runs StreamTarArchive on the write end of a pipe
InitPipe ==
    /\ producer = "builder"
    /\ call = "copyToVMTar"
    /\ fs \in BuilderFS
    /\ dest = <<>>
    /\ pc = "build"
    /\ extractDir = <<>>
    /\ walk = WalkFrom(fs, Source)
    /\ umask = 18
    /\ owner = <<0, 0>>
    /\ chownOK = TRUE

InitCommon ==
    /\ fs0 = fs
    /\ topLevelName = ""
    /\ destIsDir = FALSE
    /\ result = "none"
    /\ madeDir = {}
    /\ stream = <<>>
    /\ nread = 0
    /\ last = NoHeader
    /\ tops = {}
    /\ placed = {}
    /\ sideDirs = {}
    /\ ctxDone = FALSE
    /\ bresult = "none"
    /\ trailer = FALSE
    /\ sinkOK = TRUE
    /\ chowned = {}
    /\ pipeErr = "open"
    /\ precv = 0
    /\ readerSaw = "none"
    /\ closes = <<>>

\* no HTTP client takes part
InitNoClient ==
    /\ client = NoClient
    /\ sent = <<>>

Init ==
    /\ (InitRemote \/ InitBuilder)
    /\ InitCommon
    /\ InitNoClient

\* copyToVMTar is called on a client and has sent nothing yet
InitPipeClient ==
    /\ client \in PipeClients
    /\ sent = <<>>

InitPiped == InitPipe /\ InitCommon /\ InitPipeClient

CtxPollNever(done) == FALSE

\* "select { case <-ctx.Done(): return ctx.Err(); default: }": the poll returns
CtxPoll(done) == done

\* the context of the running call is cancelled
Cancel ==
    /\ pc \in {"build", "begin", "extract"}
    /\ ~ctxDone
    /\ ctxDone' = TRUE
    /\ UNCHANGED <<fs, fs0, umask, call, producer, dest, extractDir, topLevelName, destIsDir,
                   pc, result, madeDir, stream, walk, nread, last, tops, placed, sideDirs,
                   bresult, trailer, sinkOK, owner, chownOK, chowned, pipeErr, precv, readerSaw,
                   closes,
                   client,
                   sent>>

GoroutineClosesOnly(err) == <<"EOF">>

\* the goroutine of copyToVMTar after StreamTarArchive returned err: the calls
\* pw.CloseWithError(cause) when err is not nil, then the deferred pw.Close()
GoroutineCloses(err) == IF err # "nil" THEN <<"cause", "EOF">> ELSE <<"EOF">>

\* io.Pipe: the first error the write end is closed with stays
CloseWithError(cur, err) == IF cur = "open" THEN err ELSE cur

\* the writer w starts to fail (copyToVMTar: the read end of the pipe is closed)
SinkBreaks ==
    /\ pc = "build"
    /\ call = "copyToVMTar" => sent # <<>>
    /\ sinkOK
    /\ sinkOK' = FALSE
    /\ UNCHANGED <<fs, fs0, umask, call, producer, dest, extractDir, topLevelName, destIsDir,
                   pc, result, madeDir, stream, walk, nread, last, tops, placed, sideDirs,
                   ctxDone, bresult, trailer, owner, chownOK, chowned, pipeErr, precv,
                   readerSaw, closes,
                   client,
                   sent>>

\* StreamTarArchive returns err: the deferred tw.Close() runs, its error is
\* dropped, and the extractor, a call with a context of its own, reads what
\* was written
BuildReturns(err, st) ==
    /\ bresult' = err
    /\ trailer' = CloseWritesTrailer(st, sinkOK)
    /\ IF call = "copyToVMTar"
       THEN pc' = "done" /\ ctxDone' = ctxDone /\ closes' = GoroutineCloses(err)
       ELSE pc' = "extract" /\ ctxDone' = FALSE /\ closes' = closes

\* pw.Write has returned: the reader has taken what was written (io.Pipe has no buffer)
Delivered == call = "copyToVMTar" => precv = Len(stream)

\* StreamTarArchive: the walk function on the next object
BuildVisit ==
    /\ pc = "build"
    /\ Delivered
    /\ walk # <<>>
    /\ ~CtxPoll(ctxDone)
    /\ LET path == Head(walk)
           info == fs[path]
       IN  IF info.kind = "link" \/ ToSlash(Rel(Source, path)) = <<".">>
           THEN /\ walk' = Tail(walk)
                /\ UNCHANGED <<fs, stream, pc, bresult, trailer, ctxDone, closes>>
           ELSE IF WriteHeaderFails(stream, sinkOK)
           THEN /\ BuildReturns("ErrWriteHeader", stream)
                /\ UNCHANGED <<fs, stream, walk>>
           ELSE \E got \in (IF info.kind = "file" THEN ReadOutcomes(info.data) ELSE {<<>>}) :
                LET hdr == BuildHeader(fs, Source, path)
                    st == Append(stream, [hdr EXCEPT !.data = Written(got, hdr.size)])
                IN  /\ stream' = st
                    /\ fs' = IF got = info.data THEN fs
                              ELSE Put(fs, path, FileObj(info.mode, got))
                    /\ IF Len(got) > hdr.size
                       THEN BuildReturns("ErrCopy", st) /\ walk' = walk
                       ELSE /\ walk' = Tail(walk)
                            /\ UNCHANGED <<pc, bresult, trailer, ctxDone, closes>>
    /\ UNCHANGED <<fs0, umask, call, producer, dest, extractDir, topLevelName, destIsDir,
                   result, madeDir, nread, last, tops, placed, sideDirs, sinkOK, owner, chownOK,
                   chowned, pipeErr, precv, readerSaw,
                   client,
                   sent>>

\* StreamTarArchive: the walk function finds the context cancelled and returns
\* ctx.Err(); the deferred tw.Close() ends the archive; the extractor, a call
\* with a context of its own, reads what was written
BuildCancelled ==
    /\ pc = "build"
    /\ walk # <<>>
    /\ Delivered
    /\ CtxPoll(ctxDone)
    /\ BuildReturns("ErrCancelled", stream)
    /\ UNCHANGED <<fs, fs0, umask, call, producer, dest, extractDir, topLevelName, destIsDir,
                   result, madeDir, stream, walk, nread, last, tops, placed, sideDirs, sinkOK,
                   owner, chownOK, chowned, pipeErr, precv, readerSaw,
                   client,
                   sent>>

\* filepath.Walk is through and StreamTarArchive returns nil
BuildDone ==
    /\ pc = "build"
    /\ walk = <<>>
    /\ Delivered
    /\ BuildReturns("nil", stream)
    /\ UNCHANGED <<fs, fs0, umask, call, producer, dest, extractDir, topLevelName, destIsDir,
                   result, madeDir, stream, walk, nread, last, tops, placed, sideDirs, sinkOK,
                   owner, chownOK, chowned, pipeErr, precv, readerSaw,
                   client,
                   sent>>

\* ExtractTarToPath: the directory extracted into, and the name to rename to
ExtractDirFor(f, d) == IF StatIsDir(f, d) THEN d ELSE Dir(d)

TopLevelNameAlways(f, d) == Base(d)

TopLevelNameFor(f, d) == IF StatIsDir(f, d) THEN "" ELSE Base(d)

\* ExtractTarToPath up to the call of ExtractTarStream
Begin ==
    /\ pc = "begin"
    /\ destIsDir' = StatIsDir(fs, dest)
    /\ IF ~StatIsDir(fs, dest) /\ ~StatExists(fs, Dir(dest))
       THEN /\ extractDir' = extractDir /\ topLevelName' = topLevelName
            /\ pc' = "done" /\ result' = "ErrParentMissing"
       ELSE /\ extractDir' = ExtractDirFor(fs, dest)
            /\ topLevelName' = TopLevelNameFor(fs, dest)
            /\ pc' = "extract" /\ result' = result
    /\ UNCHANGED <<fs, fs0, umask, call, producer, dest, madeDir, stream, walk, nread, last,
                   tops, placed, sideDirs, ctxDone, bresult, trailer, sinkOK, owner, chownOK,
                   chowned, pipeErr, precv, readerSaw, closes,
                   client,
                   sent>>

\* the effect of one loop iteration of ExtractTarStream on header h
Extracted(h) ==
    LET r == ExtractOne(fs, madeDir, h, extractDir, umask, owner, chownOK) IN
    /\ fs' = r.fs
    /\ madeDir' = r.made
    /\ nread' = nread + 1
    /\ last' = h
    /\ chowned' = chowned \cup r.chown
    /\ sideDirs' = IF h.typeflag = "reg"
                    THEN sideDirs \cup {p \in DOMAIN r.fs \ DOMAIN fs : r.fs[p].kind = "dir"}
                    ELSE sideDirs
    /\ tops' = IF r.mat
               THEN tops \cup TopOf(Join(extractDir, TrimSuffix(h.name, <<"/">>)), extractDir)
               ELSE tops
    /\ IF r.err = "nil"
       THEN pc' = pc /\ result' = result
       ELSE pc' = "done" /\ result' = r.err

\* ExtractTarStream: the loop finds the context cancelled and returns ctx.Err()
ExtractCancelled ==
    /\ pc = "extract"
    /\ CtxPoll(ctxDone)
    /\ pc' = "done"
    /\ result' = "ErrCancelled"
    /\ UNCHANGED <<fs, fs0, umask, call, producer, dest, extractDir, topLevelName, destIsDir,
                   madeDir, stream, walk, nread, last, tops, placed, sideDirs, ctxDone, bresult,
                   trailer, sinkOK, owner, chownOK, chowned, pipeErr, precv, readerSaw, closes,
                   client,
                   sent>>

\* tr.Next() returns an entry sent by the remote peer
RemoteEntry(h) ==
    /\ pc = "extract"
    /\ ~CtxPoll(ctxDone)
    /\ producer = "remote"
    /\ nread < MaxEntries
    /\ Extracted(h)
    /\ UNCHANGED <<fs0, umask, call, producer, dest, extractDir, topLevelName, destIsDir,
                   stream, walk, placed, ctxDone, bresult, trailer, sinkOK, owner, chownOK,
                   pipeErr, precv, readerSaw, closes,
                   client,
                   sent>>

\* tr.Next() returns the next entry the builder wrote
BuiltEntry ==
    /\ pc = "extract"
    /\ ~CtxPoll(ctxDone)
    /\ producer = "builder"
    /\ stream # <<>>
    /\ Extracted(Head(stream))
    /\ stream' = Tail(stream)
    /\ UNCHANGED <<fs0, umask, call, producer, dest, extractDir, topLevelName, destIsDir, walk,
                   placed, ctxDone, bresult, trailer, sinkOK, owner, chownOK, pipeErr, precv,
                   readerSaw, closes,
                   client,
                   sent>>

\* tr.Next() fails: the stream is not a tar archive or breaks off in a header
ReadError ==
    /\ pc = "extract"
    /\ ~CtxPoll(ctxDone)
    /\ producer = "remote"
    /\ pc' = "done"
    /\ result' = "ErrReadHeader"
    /\ UNCHANGED <<fs, fs0, umask, call, producer, dest, extractDir, topLevelName, destIsDir,
                   madeDir, stream, walk, nread, last, tops, placed, sideDirs, ctxDone, bresult,
                   trailer, sinkOK, owner, chownOK, chowned, pipeErr, precv, readerSaw, closes,
                   client,
                   sent>>

\* tr.Next() returns io.EOF: ExtractTarStream returns nil
ReadEOF ==
    /\ pc = "extract"
    /\ ~CtxPoll(ctxDone)
    /\ IF producer = "builder" THEN stream = <<>> ELSE TRUE
    /\ IF topLevelName # ""
       THEN pc' = "place" /\ result' = result
       ELSE pc' = "done" /\ result' = "nil"
    /\ UNCHANGED <<fs, fs0, umask, call, producer, dest, extractDir, topLevelName, destIsDir,
                   madeDir, stream, walk, nread, last, tops, placed, sideDirs, ctxDone, bresult,
                   trailer, sinkOK, owner, chownOK, chowned, pipeErr, precv, readerSaw, closes,
                   client,
                   sent>>

PlacementFirstEntry(f, dir, finalDest, um) ==
    LET entries == ReadDir(f, dir)
        extractedPath == Append(dir, CHOOSE n \in entries : TRUE)
        f1 == Remove(f, finalDest)
        r2 == MkdirAll(f1, Dir(finalDest), DefaultDirMode, um)
        r3 == Rename(r2.fs, extractedPath, finalDest)
    IN  IF ~StatIsDir(f, dir) THEN [fs |-> f, err |-> "ErrReadDir", ops |-> {}]
        ELSE IF Cardinality(entries) = 0 THEN [fs |-> f, err |-> "ErrEmpty", ops |-> {}]
        ELSE IF ~r2.ok THEN [fs |-> r2.fs, err |-> "ErrMkdirDest", ops |-> {"Remove"}]
        ELSE IF ~r3.ok THEN [fs |-> r3.fs, err |-> "ErrRename", ops |-> {"Remove"}]
        ELSE [fs |-> r3.fs, err |-> "nil", ops |-> {"Remove", "Rename"}]

\* the placement step of ExtractTarToPath: what it returns, does and leaves
Placement(f, dir, finalDest, um) ==
    LET entries == ReadDir(f, dir)
        extractedPath == Append(dir, CHOOSE n \in entries : TRUE)
        f1 == Remove(f, finalDest)
        r2 == MkdirAll(f1, Dir(finalDest), DefaultDirMode, um)
        r3 == Rename(r2.fs, extractedPath, finalDest)
    IN  IF ~StatIsDir(f, dir) THEN [fs |-> f, err |-> "ErrReadDir", ops |-> {}]
        ELSE IF Cardinality(entries) = 0 THEN [fs |-> f, err |-> "ErrEmpty", ops |-> {}]
        ELSE IF Cardinality(entries) > 1 THEN [fs |-> f, err |-> "ErrAmbiguous", ops |-> {}]
        ELSE IF ~r2.ok THEN [fs |-> r2.fs, err |-> "ErrMkdirDest", ops |-> {"Remove"}]
        ELSE IF ~r3.ok THEN [fs |-> r3.fs, err |-> "ErrRename", ops |-> {"Remove"}]
        ELSE [fs |-> r3.fs, err |-> "nil", ops |-> {"Remove", "Rename"}]

Place ==
    /\ pc = "place"
    /\ LET r == Placement(fs, extractDir, dest, umask) IN
       /\ fs' = r.fs
       /\ result' = r.err
       /\ placed' = r.ops
    /\ pc' = "done"
    /\ UNCHANGED <<fs0, umask, call, producer, dest, extractDir, topLevelName, destIsDir,
                   madeDir, stream, walk, nread, last, tops, sideDirs, ctxDone, bresult,
                   trailer, sinkOK, owner, chownOK, chowned, pipeErr, precv, readerSaw, closes,
                   client,
                   sent>>

Next ==
    \/ Cancel
    \/ SinkBreaks
    \/ BuildVisit
    \/ BuildCancelled
    \/ BuildDone
    \/ Begin
    \/ ExtractCancelled
    \/ \E h \in RemoteHeaders : RemoteEntry(h)
    \/ BuiltEntry
    \/ ReadError
    \/ ReadEOF
    \/ Place

Spec == Init /\ [][Next]_vars

\* a client, and nothing else going on
InitRequest ==
    /\ call = "makeRequest"
    /\ producer = "none"
    /\ fs = Aged(BaseFS)
    /\ dest = <<>>
    /\ pc = "done"
    /\ extractDir = <<>>
    /\ walk = <<>>
    /\ umask = 18
    /\ owner = <<0, 0>>
    /\ chownOK = TRUE
    /\ InitCommon
    /\ client \in Clients
    /\ sent = <<>>

\* c.makeRequest(method, endpoint, body); httpClient.Do answers or fails
MakeRequest(method, endpoint, body) ==
    /\ call = "makeRequest"
    /\ Len(sent) < MaxRequests
    /\ IF ~UrlParses(client.baseURL)
       THEN result' = "ErrBaseURL" /\ sent' = sent
       ELSE IF body # "nil" /\ Marshal(body) = "error"
       THEN result' = "ErrMarshal" /\ sent' = sent
       ELSE /\ sent' = Append(sent, [method |-> method,
                                     url |-> <<client.baseURL, endpoint>>,
                                     header |-> RequestHeader(client, body),
                                     body |-> IF body = "nil" THEN "nil" ELSE Marshal(body)])
            /\ result' \in {"nil", "ErrDo"}
    /\ UNCHANGED <<fs, fs0, umask, call, producer, dest, extractDir, topLevelName, destIsDir,
                   pc, madeDir, stream, walk, nread, last, tops, placed, sideDirs, ctxDone,
                   bresult, trailer, sinkOK, owner, chownOK, chowned, pipeErr, precv,
                   readerSaw, closes, client>>

NextRequest ==
    \E m \in {"GET", "POST"}, b \in Bodies : MakeRequest(m, "/test", b)

SpecRequest == InitRequest /\ [][NextRequest]_vars

\* copyToVMTar: pw.Write fails with io.ErrClosedPipe because the read end was
\* closed before the bytes were taken; StreamTarArchive returns the error
PipeWriteFails ==
    /\ call = "copyToVMTar"
    /\ pc = "build"
    /\ ~Delivered
    /\ ~sinkOK
    /\ BuildReturns("ErrCopy", stream)
    /\ UNCHANGED <<fs, fs0, umask, producer, call, dest, extractDir, topLevelName, destIsDir,
                   result, madeDir, stream, walk, nread, last, tops, placed, sideDirs, sinkOK,
                   owner, chownOK, chowned, pipeErr, precv, readerSaw,
                   client,
                   sent>>

\* copyToVMTar: the goroutine makes its next close call on the write end
PipeClose ==
    /\ call = "copyToVMTar"
    /\ closes # <<>>
    /\ pipeErr' = CloseWithError(pipeErr, Head(closes))
    /\ closes' = Tail(closes)
    /\ UNCHANGED <<fs, fs0, umask, producer, call, dest, extractDir, topLevelName, destIsDir,
                   pc, result, madeDir, stream, walk, nread, last, tops, placed, sideDirs,
                   ctxDone, bresult, trailer, sinkOK, owner, chownOK, chowned, precv, readerSaw,
                   client,
                   sent>>

\* copyToVMTar: the HTTP transport reads the request body pr: it takes what
\* was written, or finds the write end closed and gets the error it was closed with
PipeRead ==
    /\ call = "copyToVMTar"
    /\ sent # <<>>
    /\ sinkOK
    /\ readerSaw = "none"
    /\ IF precv < Len(stream)
       THEN precv' = precv + 1 /\ readerSaw' = readerSaw
       ELSE pipeErr # "open" /\ readerSaw' = pipeErr /\ precv' = precv
    /\ UNCHANGED <<fs, fs0, umask, producer, call, dest, extractDir, topLevelName, destIsDir,
                   pc, result, madeDir, stream, walk, nread, last, tops, placed, sideDirs,
                   ctxDone, bresult, trailer, sinkOK, owner, chownOK, chowned, pipeErr, closes,
                   client,
                   sent>>

DeferredCloseMissing(ok) == ok

\* "defer pr.Close()": whether writes to the pipe still succeed once copyToVMTar has returned
DeferredClose(ok) == FALSE

\* copyToVMTar: url.Parse(c.baseURL) fails and the function returns
CopyParseFails ==
    /\ call = "copyToVMTar"
    /\ result = "none"
    /\ sent = <<>>
    /\ ~UrlParses(client.baseURL)
    /\ result' = "ErrBaseURL"
    /\ sinkOK' = DeferredClose(sinkOK)
    /\ UNCHANGED <<fs, fs0, umask, producer, call, dest, extractDir, topLevelName, destIsDir,
                   pc, madeDir, stream, walk, nread, last, tops, placed, sideDirs,
                   ctxDone, bresult, trailer, owner, chownOK, chowned, pipeErr, precv,
                   readerSaw, closes,
                   client,
                   sent>>

\* copyToVMTar: the request is built with pr as its body and handed to httpClient.Do
CopyDo ==
    /\ call = "copyToVMTar"
    /\ result = "none"
    /\ sent = <<>>
    /\ UrlParses(client.baseURL)
    /\ sent' = Append(sent, [method |-> "POST",
                             url |-> <<client.baseURL, "/vm/cp">>,
                             header |-> CopyHeader(client),
                             body |-> "pr"])
    /\ UNCHANGED <<fs, fs0, umask, producer, call, dest, extractDir, topLevelName, destIsDir,
                   pc, result, madeDir, stream, walk, nread, last, tops, placed, sideDirs,
                   ctxDone, bresult, trailer, sinkOK, owner, chownOK, chowned, pipeErr, precv,
                   readerSaw, closes,
                   client>>

\* copyToVMTar: httpClient.Do fails, or answers with a status that is or is not
\* 200, however much of the body was read; the function returns
CopyReturns ==
    /\ call = "copyToVMTar"
    /\ result = "none"
    /\ sent # <<>>
    /\ result' \in {"ErrDo", "ErrStatus", "nil"}
    /\ sinkOK' = DeferredClose(sinkOK)
    /\ UNCHANGED <<fs, fs0, umask, producer, call, dest, extractDir, topLevelName, destIsDir,
                   pc, madeDir, stream, walk, nread, last, tops, placed, sideDirs,
                   ctxDone, bresult, trailer, owner, chownOK, chowned, pipeErr, precv,
                   readerSaw, closes,
                   client,
                   sent>>

NextPiped ==
    \/ Cancel
    \/ SinkBreaks
    \/ BuildVisit
    \/ BuildCancelled
    \/ BuildDone
    \/ PipeWriteFails
    \/ PipeClose
    \/ PipeRead
    \/ CopyParseFails
    \/ CopyDo
    \/ CopyReturns

SpecPiped == InitPiped /\ [][NextPiped]_vars

\* a step of the goroutine copyToVMTar started
GoroutineStep == BuildVisit \/ BuildCancelled \/ BuildDone \/ PipeWriteFails \/ PipeClose

\* the Go scheduler runs a goroutine that can run; nothing makes the server or
\* the transport read the body or answer
SpecPipedFair == SpecPiped /\ WF_vars(GoroutineStep)

\* copyFromVMBinary(ctx, c, vmName, vmPath, localPath, uid, gid, permissions)
\* is called with localPath = dest
InitBinary ==
    /\ call = "copyFromVMBinary"
    /\ producer = "none"
    /\ fs \in RemoteFS
    /\ dest \in Dests
    /\ pc = "open"
    /\ extractDir = <<>>
    /\ walk = <<>>
    /\ umask = 18
    /\ owner = <<0, 0>>
    /\ chownOK = TRUE
    /\ InitCommon
    /\ client \in Clients
    /\ sent = <<>>

\* copyFromVMBinary: the permissions are parsed and the local file is opened
\* with O_CREATE|O_WRONLY|O_TRUNC
BinaryOpen(permissions) ==
    /\ call = "copyFromVMBinary"
    /\ pc = "open"
    /\ IF FileMode(permissions) = -1
       THEN result' = "ErrPermissions" /\ pc' = "done" /\ fs' = fs
       ELSE LET o == OpenFile(fs, dest, FileMode(permissions), umask)
            IN  /\ fs' = o.fs
                /\ IF o.ok THEN pc' = "parse" /\ result' = result
                   ELSE pc' = "done" /\ result' = "ErrCreate"
    /\ UNCHANGED <<fs0, umask, producer, call, dest, extractDir, topLevelName, destIsDir,
                   madeDir, stream, walk, nread, last, tops, placed, sideDirs,
                   ctxDone, bresult, trailer, sinkOK, owner, chownOK, chowned, pipeErr, precv,
                   readerSaw, closes,
                   client,
                   sent>>

\* copyFromVMBinary: the base URL is parsed and the request handed to httpClient.Do
BinaryRequest ==
    /\ call = "copyFromVMBinary"
    /\ pc = "parse"
    /\ IF ~UrlParses(client.baseURL)
       THEN result' = "ErrBaseURL" /\ pc' = "done" /\ sent' = sent
       ELSE /\ sent' = Append(sent, [method |-> "GET",
                                     url |-> <<client.baseURL, "/vm/cp">>,
                                     header |-> BinaryHeader(client),
                                     body |-> "nil"])
            /\ pc' = "do"
            /\ result' = result
    /\ UNCHANGED <<fs, fs0, umask, producer, call, dest, extractDir, topLevelName, destIsDir,
                   madeDir, stream, walk, nread, last, tops, placed, sideDirs,
                   ctxDone, bresult, trailer, sinkOK, owner, chownOK, chowned, pipeErr, precv,
                   readerSaw, closes,
                   client>>

\* copyFromVMBinary: httpClient.Do returns; the status and the body are
\* looked at and the body is copied into the local file
BinaryResponse(res) ==
    /\ call = "copyFromVMBinary"
    /\ pc = "do"
    /\ pc' = "done"
    /\ IF res.do = "error" THEN result' = "ErrDo" /\ fs' = fs
       ELSE IF res.status # 200 THEN result' = "ErrStatus" /\ fs' = fs
       ELSE IF ~res.hasBody THEN result' = "ErrNoBody" /\ fs' = fs
       ELSE IF res.readOK \/ res.body = <<>>
       THEN /\ result' = IF res.readOK THEN "nil" ELSE "ErrCopy"
            /\ fs' = IF res.body = <<>> THEN fs ELSE WriteData(fs, dest, res.body)
       ELSE /\ result' = "ErrCopy"
            /\ fs' = WriteData(fs, dest, SubSeq(res.body, 1, 1))
    /\ UNCHANGED <<fs0, umask, producer, call, dest, extractDir, topLevelName, destIsDir,
                   madeDir, stream, walk, nread, last, tops, placed, sideDirs,
                   ctxDone, bresult, trailer, sinkOK, owner, chownOK, chowned, pipeErr, precv,
                   readerSaw, closes,
                   client,
                   sent>>

NextBinary ==
    \/ \E p \in Permissions : BinaryOpen(p)
    \/ BinaryRequest
    \/ \E res \in Responses : BinaryResponse(res)

SpecBinary == InitBinary /\ [][NextBinary]_vars

----------------------------------------------------------------------------
(* Vocabulary of the properties *)

ExtractErrors ==
    {"ErrReadHeader", "ErrInvalidName", "ErrOutside", "ErrMkdir", "ErrMkdirParent",
     "ErrCreate", "ErrWrite", "ErrShort", "ErrCancelled"}

PathErrors == {"ErrInvalidName", "ErrOutside"}

\* the lexical target of header h
TargetOf(h) == Join(extractDir, TrimSuffix(h.name, <<"/">>))

\* object p is the same as when the operation started (absent or equal)
SameAsBefore(p) ==
    IF p \in DOMAIN fs0 THEN p \in DOMAIN fs /\ fs[p] = fs0[p] ELSE p \notin DOMAIN fs

\* nothing outside the extraction root was created, changed or removed
OutsideUntouched ==
    \A p \in DOMAIN fs \cup DOMAIN fs0 : ~IsUnder(p, extractDir) => SameAsBefore(p)

\* the name of h has a ".." segment
HasDotDotSegment(h) == \E i \in DOMAIN SplitSlash(h.name) : SplitSlash(h.name)[i] = ".."

\* ExtractTarToPath ran its placement step (ExtractTarStream returned nil, rename mode)
PlacementRan ==
    /\ pc = "done"
    /\ call = "ExtractTarToPath"
    /\ topLevelName # ""
    /\ result \notin ExtractErrors \cup {"ErrParentMissing"}

\* the last entry read is a regular file with a plain top-level name
LastIsTopFile == last.typeflag = "reg" /\ last.name \in {<<"a">>, <<"b">>}

----------------------------------------------------------------------------
(* Properties *)

\* C1: an entry whose path contains "../", is absolute, or resolves outside
\* the extraction root (through a symbolic link inside the root) fails with
\* the path-safety error, and nothing outside the root is created,
\* overwritten or removed.
C1_PathContainment ==
    /\ (nread > 0
        /\ (Contains(last.name, <<".", ".", "/">>)
            \/ HasPrefix(last.name, <<"/">>)
            \/ ~IsUnder(Resolve(fs, TargetOf(last)), extractDir)))
       => (pc = "done" /\ result \in PathErrors)
    /\ OutsideUntouched

\* C2: an entry whose name is empty, starts with "/", or has a ".." segment
\* in any position is rejected with a fatal error before it is materialized
\* and before a later entry is read.
C2_NameValidation ==
    [][(nread' = nread + 1
        /\ (last'.name = <<>> \/ HasPrefix(last'.name, <<"/">>) \/ HasDotDotSegment(last')))
       => (fs' = fs /\ pc' = "done" /\ result' \in PathErrors)]_vars

Tree(root) ==
    [r \in {SubSeq(p, Len(root) + 1, Len(p)) : p \in {q \in DOMAIN fs : IsUnder(q, root) /\ q # root}}
        |-> [kind |-> fs[root \o r].kind, data |-> fs[root \o r].data,
             mode |-> Perm(fs[root \o r].mode)]]

\* C4: building a tree of regular files and directories and extracting the
\* archive into an empty directory reproduces the relative paths, contents,
\* executable bits and permission modes.
C4_RoundTrip ==
    (/\ pc = "done"
     /\ producer = "builder"
     /\ bresult = "nil"
     /\ result # "ErrCancelled"
     /\ \A p \in DOMAIN fs0 : IsUnder(p, Source) => fs[p] = fs0[p]
     /\ fs0[Source].kind = "dir"
     /\ \A p \in DOMAIN fs0 : IsUnder(p, Source) => fs0[p].kind # "link")
    => (result = "nil" /\ Tree(W) = Tree(Source))

\* C5: with one top-level entry in the archive and a destination that does
\* not exist in an existing parent directory, ExtractTarToPath succeeds, the
\* destination holds the extracted object and its archive name is gone.
C5_PlacementByRename ==
    (/\ PlacementRan
     /\ dest \notin DOMAIN fs0
     /\ Cardinality(tops) = 1)
    => /\ result = "nil"
       /\ dest \in DOMAIN fs
       /\ \A n \in tops : n # Base(dest) => Append(extractDir, n) \notin DOMAIN fs
       /\ LastIsTopFile => (fs[dest].kind = "file" /\ fs[dest].data = last.data)

\* C6: when the destination is an existing directory the archive is
\* extracted directly into it, nothing is renamed or removed afterwards and
\* the entries of the directory are not counted.
C6_ExtractIntoDirectory ==
    (call = "ExtractTarToPath" /\ destIsDir)
    => /\ extractDir = dest
       /\ placed = {}
       /\ pc # "place"
       /\ result \in {"none", "nil"} \cup ExtractErrors
       /\ (nread > 0 /\ LastIsTopFile /\ result \in {"none", "nil"})
          => LET t == Resolve(fs, Append(dest, last.name[1])) IN
             t \in DOMAIN fs /\ fs[t].kind = "file" /\ fs[t].data = last.data

C6_Witness ==
    /\ pc = "done"
    /\ destIsDir
    /\ dest = W
    /\ result = "nil"
    /\ <<"w", "b">> \in DOMAIN fs0
    /\ last = Header(<<"a">>, "reg", 384, 2, Full)
    /\ fs[<<"w", "a">>].data = Full

\* C7: with a destination that is no existing directory and an archive of
\* zero entries, ExtractTarToPath fails with the empty-archive error and
\* leaves the filesystem unchanged.
C7_EmptyArchive ==
    (PlacementRan /\ nread = 0) => (result = "ErrEmpty" /\ fs = fs0)

\* C8: with a destination that is no existing directory and more than one
\* top-level entry materialized, ExtractTarToPath fails with the
\* ambiguous-destination error, does not remove the destination and renames
\* nothing to it.
C8_AmbiguousDestination ==
    (PlacementRan /\ Cardinality(tops) > 1)
    => /\ result = "ErrAmbiguous"
       /\ "Rename" \notin placed
       /\ dest \in DOMAIN fs0 => SameAsBefore(dest)

\* C8 as amended: the error is the ambiguous-destination error and the
\* placement step removes and renames nothing; the destination is as it was
\* unless an entry of the archive has the destination's own name.
C8_AmbiguousDestinationAmended ==
    (PlacementRan /\ Cardinality(tops) > 1)
    => /\ result = "ErrAmbiguous"
       /\ placed = {}
       /\ Base(dest) \notin tops => SameAsBefore(dest)

C8_Witness ==
    /\ PlacementRan
    /\ tops = {"a", "b"}
    /\ result = "ErrAmbiguous"
    /\ dest = <<"w", "b">>
    /\ dest \in DOMAIN fs0
    /\ ~SameAsBefore(dest)

\* C9: with a destination that is an existing regular file and one
\* top-level entry in the archive, ExtractTarToPath removes the file,
\* renames the extracted object onto it and succeeds.
C9_ReplaceExistingFile ==
    (/\ PlacementRan
     /\ dest \in DOMAIN fs0
     /\ fs0[dest].kind = "file"
     /\ Cardinality(tops) = 1)
    => /\ result = "nil"
       /\ placed = {"Remove", "Rename"}
       /\ dest \in DOMAIN fs
       /\ LastIsTopFile => (fs[dest].kind = "file" /\ fs[dest].data = last.data)

\* C10: a regular-file entry whose content ends before the declared size
\* makes ExtractTarStream return an error; it never returns success after a
\* short file.
C10_TruncationDetected ==
    (nread > 0 /\ last.typeflag = "reg" /\ Len(last.data) < last.size)
    => (pc = "done" /\ result \notin {"none", "nil"})

C10_Witness ==
    /\ pc = "done"
    /\ last = Header(<<"a">>, "reg", 384, 2, <<"x">>)
    /\ result = "ErrWrite"
    /\ fs[<<"w", "a">>].data = <<"x">>

\* C11: when a directory was first created as a side effect of extracting a
\* file beneath it and a directory entry for that path arrives later,
\* extraction does not fail and the directory then has the mode and the
\* timestamp the directory entry declares.
C11_LateDirectoryEntry ==
    [][(/\ nread' = nread + 1
        /\ last'.typeflag = "dir"
        /\ ValidRelPath(TrimSuffix(last'.name, <<"/">>))
        /\ Resolve(fs, TargetOf(last')) \in sideDirs
        /\ StatIsDir(fs, TargetOf(last')))
       => LET d == fs'[Resolve(fs, TargetOf(last'))] IN
          /\ pc' = "extract"
          /\ d.mode = NormMode(last'.mode)
          /\ last'.mtime # "zero" => d.mtime = last'.mtime]_vars

\* C12: ExtractTarStream polls the context once per entry, before it reads the
\* entry: with the context cancelled it returns the cancellation error, reads
\* and processes no further entry (so never the last one), and leaves what
\* earlier entries materialized in place.
C12_CancelledExtraction ==
    [][/\ (pc = "extract" /\ ctxDone)
          => (/\ pc' = "done"
              /\ result' = "ErrCancelled"
              /\ fs' = fs
              /\ nread' = nread
              /\ stream' = stream)
       /\ nread' # nread => ~ctxDone]_vars

C12_Witness ==
    /\ pc = "done"
    /\ result = "ErrCancelled"
    /\ producer = "builder"
    /\ bresult = "nil"
    /\ nread = 1
    /\ Len(stream) >= 1
    /\ <<"w", "a">> \in DOMAIN fs
    /\ fs[<<"w", "a">>].data = Full

\* C13: when StreamTarArchive stops on a cancelled context it returns the
\* cancellation error and what it has emitted is recognisably truncated: no
\* end-of-archive marker follows the entries, and a receiver that reads the
\* bytes does not return success.
C13_CancelledBuildIsTruncated ==
    bresult = "ErrCancelled"
    => /\ ~trailer
       /\ pc = "done" => result # "nil"

\* C15: when StreamTarArchive returns no error its output is a complete
\* archive: every entry holds as many bytes as its header declares and the
\* end-of-archive marker follows; a failure of w, also while the writer is
\* closed, and a file whose length changes between stat and read make it
\* return an error.
C15_NilMeansCompleteArchive ==
    (bresult = "nil" /\ pc = "extract" /\ nread = 0)
    => /\ trailer
       /\ \A i \in DOMAIN stream : Len(stream[i].data) = stream[i].size

\* the entries StreamTarArchive has emitted, while none has been read
Emitted == IF pc \in {"build", "extract"} /\ nread = 0 THEN stream ELSE <<>>

\* C16: every entry StreamTarArchive emits is named by the slash-separated
\* path of its object relative to the source itself (never prefixed with the
\* source's own name), the source root is not emitted, and an entry is a
\* directory entry exactly when its name ends in "/".
C16_EntryNames ==
    \A i \in DOMAIN Emitted :
        LET e == Emitted[i]
            segs == SplitSlash(TrimSuffix(e.name, <<"/">>))
            obj == Source \o segs
        IN  /\ e.name \notin {<<".">>, <<".", "/">>, <<>>, <<"/">>}
            /\ \A k \in DOMAIN segs : segs[k] \notin {"", ".", "..", "?"}
            /\ obj \in DOMAIN fs0
            /\ obj # Source
            /\ fs0[obj].kind = (IF e.typeflag = "dir" THEN "dir" ELSE "file")
            /\ (e.typeflag = "dir") <=> (e.name # TrimSuffix(e.name, <<"/">>))

C16_Witness ==
    /\ pc = "extract"
    /\ nread = 0
    /\ bresult = "nil"
    /\ Len(stream) = 3
    /\ stream[1].name = <<"a">>
    /\ stream[2].name = <<"d", "/">>
    /\ stream[3].name = <<"d", "/", "b">>

\* C17: when the source is a single regular file, the archive
\* StreamTarArchive returns without error holds that file as a regular-file
\* entry with its content.
C17_SingleFileSource ==
    (/\ producer = "builder"
     /\ fs0[Source].kind = "file"
     /\ fs[Source] = fs0[Source]
     /\ bresult = "nil"
     /\ pc = "extract"
     /\ nread = 0)
    => \E i \in DOMAIN stream :
          /\ stream[i].typeflag = "reg"
          /\ stream[i].data = fs0[Source].data

\* the execute bits of a mode
ExecOf(m) == BitAnd(m, ExecBits)

\* the object of the source tree that emitted entry e stands for
SourceOf(e) == Source \o SplitSlash(TrimSuffix(e.name, <<"/">>))

\* the first entry of the stream has just been materialized as a new object
FirstEntryCreated(t) ==
    /\ nread = 1
    /\ pc = "extract"
    /\ last.typeflag = t
    /\ Resolve(fs, TargetOf(last)) \in DOMAIN fs \ DOMAIN fs0

\* C18: the execute bits of a regular file are kept as they are: the entry
\* StreamTarArchive emits for a file has exactly the execute bits of the
\* file's mode, and the file ExtractTarStream writes has exactly the execute
\* bits its entry declares.
C18_FileExecBitsVerbatim ==
    /\ \A i \in DOMAIN Emitted :
          Emitted[i].typeflag = "reg"
          => ExecOf(Emitted[i].mode) = ExecOf(fs0[SourceOf(Emitted[i])].mode)
    /\ FirstEntryCreated("reg")
       => ExecOf(fs[Resolve(fs, TargetOf(last))].mode) = ExecOf(last.mode)

\* C19: no execute bit is added to a directory: the entry StreamTarArchive
\* emits for a directory has no execute bit the directory's mode lacks, and a
\* directory ExtractTarStream creates for a directory entry has no execute
\* bit the entry's declared mode lacks.
C19_NoExecBitsAddedToDirectories ==
    /\ \A i \in DOMAIN Emitted :
          Emitted[i].typeflag = "dir"
          => BitAnd(ExecOf(Emitted[i].mode), fs0[SourceOf(Emitted[i])].mode)
             = ExecOf(Emitted[i].mode)
    /\ FirstEntryCreated("dir")
       => LET m == fs[Resolve(fs, TargetOf(last))].mode IN
          BitAnd(ExecOf(m), last.mode) = ExecOf(m)

\* filesystems f and g differ at most in who owns the objects
SameButOwners(f, g) ==
    /\ DOMAIN f = DOMAIN g
    /\ \A p \in DOMAIN f : [f[p] EXCEPT !.owner = ProcessIds] = [g[p] EXCEPT !.owner = ProcessIds]

\* a failing os.Chown changes neither the error of an iteration nor what it
\* leaves on disk, the owners apart
ChownFailureIgnored ==
    LET r == ExtractOne(fs, madeDir, last', extractDir, umask, owner, TRUE) IN
    /\ result' = (IF r.err = "nil" THEN result ELSE r.err)
    /\ SameButOwners(fs', r.fs)

\* C20: with ownership (0,0) ExtractTarStream calls os.Chown on nothing; with
\* any other ownership it calls it on every file and directory it
\* materializes; a failing call changes neither the result nor the
\* extraction of the remaining entries.
C20_OwnershipPolicy ==
    [][nread' = nread + 1
       => /\ owner = <<0, 0>> => chowned' = {}
          /\ (owner # <<0, 0>> /\ pc' = "extract")
             => \A p \in DOMAIN fs' \ DOMAIN fs :
                   p \in {Resolve(fs', t) : t \in chowned'}
          /\ ~chownOK => ChownFailureIgnored]_vars

\* C20 as amended: with another ownership than (0,0) os.Chown is called on
\* the target of every file entry and directory entry that is materialized;
\* the parent directories created for a file entry are left to the process's
\* own user and group.
C20_OwnershipPolicyAmended ==
    [][nread' = nread + 1
       => /\ owner = <<0, 0>> => chowned' = {}
          /\ (owner # <<0, 0>> /\ pc' = "extract" /\ last'.typeflag \in {"dir", "reg"})
             => TargetOf(last') \in chowned'
          /\ ~chownOK => ChownFailureIgnored]_vars

C20_Witness ==
    /\ pc = "extract"
    /\ call = "ExtractTarToPath"
    /\ owner = <<7, 0>>
    /\ ~chownOK
    /\ nread = 2
    /\ last.name = <<"a", "/", "b">>
    /\ chowned = {<<"w", "a">>, <<"w", "a", "b">>}
    /\ fs[<<"w", "a">>].owner = ProcessIds
    /\ fs[<<"w", "a", "b">>].data = Full

\* C14: in copyToVMTar, when StreamTarArchive in the goroutine returns an
\* error, the write end of the pipe ends up closed with that cause, and
\* whatever the order of the goroutine's and the reader's steps the reader
\* never gets a clean end-of-stream: a Read that ends the stream returns the
\* cause.
C14_BuilderFailureReachesReader ==
    /\ readerSaw = "EOF" => bresult = "nil"
    /\ (bresult \notin {"none", "nil"} /\ readerSaw # "none") => readerSaw = "cause"
    /\ (bresult \notin {"none", "nil"} /\ pipeErr # "open") => pipeErr = "cause"
    /\ (bresult \notin {"none", "nil"} /\ closes = <<>>) => pipeErr = "cause"

C14_Witness ==
    /\ call = "copyToVMTar"
    /\ bresult = "ErrCancelled"
    /\ closes = <<>>
    /\ precv = 1
    /\ readerSaw = "cause"

\* C21: an entry that is neither a directory nor a regular file and has a
\* valid name is skipped: the iteration returns no error, changes nothing on
\* the filesystem, and the loop goes on to the next entry.
C21_OtherKindsSkipped ==
    [][(/\ nread' = nread + 1
        /\ last'.typeflag \notin {"dir", "reg"}
        /\ ValidRelPath(TrimSuffix(last'.name, <<"/">>))
        /\ Contained(TargetOf(last'), extractDir))
       => (/\ fs' = fs
           /\ pc' = "extract"
           /\ result' = "none"
           /\ chowned' = chowned)]_vars

C21_Witness ==
    /\ pc = "done"
    /\ result = "nil"
    /\ nread = 1
    /\ last = Header(<<"a">>, "sym", 511, 0, <<>>)
    /\ fs = fs0

\* the files and directories this extraction has created or written so far
Materialized ==
    {p \in DOMAIN fs : /\ fs[p].kind \in {"file", "dir"}
                        /\ (p \in DOMAIN fs0 => fs0[p] # fs[p])}

\* object p is after the step as it is before it: there, with the same kind, content and mode
LeftAsWritten(p) ==
    /\ p \in DOMAIN fs'
    /\ fs'[p].kind = fs[p].kind
    /\ fs'[p].data = fs[p].data
    /\ fs'[p].mode = fs[p].mode

\* ExtractTarStream returns an error: a fatal error of an entry, or cancellation
Aborts == pc = "extract" /\ pc' = "done" /\ result' # "nil"

\* C22: when ExtractTarStream aborts with a fatal error or on cancellation,
\* every object the earlier entries materialized is left as it was written
\* (existence, content, mode), and the failure shows in the returned error.
C22_NoRollback ==
    [][Aborts => \A p \in Materialized : LeftAsWritten(p)]_vars

\* C22 as amended: the same for every object but the one the failing entry
\* itself names, which that entry may already have removed or rewritten.
C22_NoRollbackAmended ==
    [][Aborts => /\ result' # "none"
                 /\ \A p \in Materialized :
                       (nread' = nread \/ p # LResolve(fs, TargetOf(last')))
                       => LeftAsWritten(p)]_vars

C22_Witness ==
    /\ pc = "done"
    /\ result = "ErrWrite"
    /\ nread = 2
    /\ last = Header(<<"a">>, "reg", 384, 2, <<"x">>)
    /\ <<"w", "b">> \in Materialized
    /\ fs[<<"w", "b">>].data = Full

\* every error ExtractTarStream and ExtractTarToPath return
AllErrors == ExtractErrors \cup {"ErrParentMissing", "ErrReadDir", "ErrEmpty", "ErrAmbiguous",
                                 "ErrMkdirDest", "ErrRename"}

\* what errors.Is and errors.As find in the returned value: the errors wrapped
\* with %w; fmt.Errorf without %w yields a value that has only its text
ErrorChain(e) ==
    IF e = "ErrCancelled" THEN {"context.Canceled"}
    ELSE IF e = "ErrWrite" THEN {"io.ErrUnexpectedEOF"}
    ELSE IF e = "ErrReadHeader" THEN {"tar.ErrHeader"}
    ELSE IF e = "ErrRename" THEN {"*os.LinkError"}
    ELSE IF e \in {"ErrInvalidName", "ErrOutside", "ErrShort", "ErrEmpty", "ErrAmbiguous"} THEN {}
    ELSE {"*fs.PathError"}

\* the failure outcome an error stands for
OutcomeClass(e) ==
    IF e = "ErrInvalidName" THEN "unsafe path"
    ELSE IF e = "ErrOutside" THEN "containment"
    ELSE IF e \in {"ErrWrite", "ErrShort"} THEN "truncated entry"
    ELSE IF e = "ErrEmpty" THEN "empty archive"
    ELSE IF e = "ErrAmbiguous" THEN "ambiguous destination"
    ELSE IF e = "ErrCancelled" THEN "cancellation"
    ELSE "i/o"

\* C23: the error returned for an unsafe path, a containment violation, a
\* truncated entry, an empty archive, an ambiguous destination or a
\* cancellation can be told from the error of every other outcome, a generic
\* I/O failure included, by errors.Is / errors.As, without its message text.
C23_DistinctErrorValues ==
    (pc = "done" /\ result \in AllErrors /\ OutcomeClass(result) # "i/o")
    => \A e \in AllErrors :
          OutcomeClass(e) # OutcomeClass(result) => ErrorChain(e) # ErrorChain(result)

\* C24: every request makeRequest issues has "Authorization: Bearer <token>"
\* when the client's token is not empty and no Authorization header when it
\* is, has "Content-Type: application/json" exactly when it has a body, and
\* has the client's User-Agent when one is configured.
C24_RequestHeaders ==
    \A i \in DOMAIN sent :
        LET h == sent[i].header IN
        /\ client.token # <<>>
           => ("Authorization" \in DOMAIN h /\ h["Authorization"] = Bearer \o client.token)
        /\ client.token = <<>> => "Authorization" \notin DOMAIN h
        /\ ("Content-Type" \in DOMAIN h) <=> (sent[i].body # "nil")
        /\ "Content-Type" \in DOMAIN h => h["Content-Type"] = "application/json"
        /\ client.userAgent # <<>>
           => ("User-Agent" \in DOMAIN h /\ h["User-Agent"] = client.userAgent)

C24_Witness ==
    /\ call = "makeRequest"
    /\ client.token = <<"t", "k">>
    /\ client.userAgent = <<"u">>
    /\ Len(sent) = 2
    /\ sent[1].body = "nil"
    /\ DOMAIN sent[1].header = {"User-Agent", "Authorization"}
    /\ sent[2].body = "{}"
    /\ DOMAIN sent[2].header = {"User-Agent", "Authorization", "Content-Type"}

\* C25: when the one top-level entry of the archive has the name of the leaf
\* of a destination that does not exist yet (in a parent directory that holds
\* nothing else), ExtractTarToPath succeeds, the destination holds what was
\* extracted, and the placement step has not deleted it.
C25_SameNameAsDestination ==
    (/\ PlacementRan
     /\ dest \notin DOMAIN fs0
     /\ Children(fs0, extractDir) = {}
     /\ tops = {Base(dest)})
    => /\ result = "nil"
       /\ dest \in DOMAIN fs
       /\ LastIsTopFile => (fs[dest].kind = "file" /\ fs[dest].data = last.data)

\* C26: the extraction root is a directory when ExtractTarStream starts and
\* is still that directory after every entry it has accepted, also after a
\* regular-file entry whose name resolves to the root itself.
C26_RootStaysDirectory ==
    (/\ nread > 0
     /\ result \in {"none", "nil"}
     /\ placed = {}
     /\ StatIsDir(fs0, extractDir))
    => (extractDir \in DOMAIN fs /\ fs[extractDir].kind = "dir")

\* the goroutine of copyToVMTar has ended: StreamTarArchive returned and the
\* close calls are made
GoroutineEnded == bresult # "none" /\ closes = <<>>

\* C27: once copyToVMTar has returned, whatever the way it returned and
\* however much of the body was read, the goroutine that builds the archive
\* eventually ends: it does not stay blocked on a write to the pipe.
C27_GoroutineTerminates ==
    (call = "copyToVMTar" /\ result # "none") ~> GoroutineEnded

C27_Witness ==
    /\ call = "copyToVMTar"
    /\ result = "ErrBaseURL"
    /\ stream = <<>>
    /\ bresult = "ErrWriteHeader"
    /\ pipeErr = "cause"
    /\ GoroutineEnded

\* C28: when copyFromVMBinary returns an error because the base URL is
\* invalid, the request fails or the status is not 200, the local path is as
\* it was: a file that existed has its previous content, and no file was
\* created.
C28_FailedDownloadLeavesFile ==
    (call = "copyFromVMBinary" /\ result \in {"ErrBaseURL", "ErrDo", "ErrStatus"})
    => SameAsBefore(Resolve(fs0, dest))

====
